---- MODULE Spec2Model ----
(***************************************************************************)
(* Model of pco-pedal-sync.py: the catalog build over the remote song      *)
(* enumeration, the two-pass merge into the pedal project's song slots,    *)
(* the save and the "not added" report, and convert_time_signature.        *)
(*                                                                         *)
(* Python strings are sequences of one-character strings, so that          *)
(* startswith, split and int() are computed rather than assumed.  JSON     *)
(* values that may be null, a number or a string are records               *)
(* [kind, num, str].  A Python dict is the sequence of its entries in      *)
(* insertion order.                                                        *)
(***************************************************************************)
EXTENDS Integers, Sequences, FiniteSets, TLC

\* ------------------------------------------------------------------ bounds

\* Number of song slots in the project file.
MaxSlots == 3
\* Number of songs the remote enumeration yields in one run.
MaxRemote == 3
\* Length of the time-signature texts given to convert_time_signature.
MaxLen == 3

\* ------------------------------------------------------- program constants

DefaultBpm == 80
DefaultTimeSig == 3
DefaultMaxSongs == 128

\* ----------------------------------------------------------------- strings

Digits == <<"0", "1", "2", "3", "4", "5", "6", "7", "8", "9">>

IsDigit(c) == \E d \in 1..10 : Digits[d] = c

DigitVal(c) == (CHOOSE d \in 1..10 : Digits[d] = c) - 1

IsSpace(c) == c = " "

\* str.startswith(prefix)
StartsWith(s, prefix) ==
    /\ Len(s) >= Len(prefix)
    /\ SubSeq(s, 1, Len(prefix)) = prefix

\* s.split('/')[0]: the text before the first "/", or all of s
RECURSIVE BeforeSlash(_)
BeforeSlash(s) ==
    IF s = <<>> \/ Head(s) = "/" THEN <<>>
    ELSE <<Head(s)>> \o BeforeSlash(Tail(s))

RECURSIVE LStrip(_)
LStrip(s) == IF s # <<>> /\ IsSpace(Head(s)) THEN LStrip(Tail(s)) ELSE s

RECURSIVE RStrip(_)
RStrip(s) ==
    IF s # <<>> /\ IsSpace(s[Len(s)]) THEN RStrip(SubSeq(s, 1, Len(s) - 1)) ELSE s

RECURSIVE DigitsValue(_)
DigitsValue(ds) ==
    IF ds = <<>> THEN 0
    ELSE 10 * DigitsValue(SubSeq(ds, 1, Len(ds) - 1)) + DigitVal(ds[Len(ds)])

\* int(text): surrounding whitespace is ignored, then an optional sign and
\* one or more decimal digits; anything else raises ValueError (ok = FALSE).
ParseInt(s) ==
    LET t == RStrip(LStrip(s))
        signed == t # <<>> /\ Head(t) \in {"+", "-"}
        ds == IF signed THEN Tail(t) ELSE t
        valid == ds # <<>> /\ \A k \in 1..Len(ds) : IsDigit(ds[k])
    IN  IF ~valid THEN [ok |-> FALSE, val |-> 0]
        ELSE [ok |-> TRUE,
              val |-> IF signed /\ Head(t) = "-" THEN 0 - DigitsValue(ds)
                      ELSE DigitsValue(ds)]

\* ------------------------------------------------------------- JSON values

JNull == [kind |-> "null", num |-> 0, str |-> <<>>]
JNum(n) == [kind |-> "num", num |-> n, str |-> <<>>]
JStr(s) == [kind |-> "str", num |-> 0, str |-> s]

\* Python truth value of None, a number or a string
Truthy(v) ==
    CASE v.kind = "null" -> FALSE
      [] v.kind = "num" -> v.num # 0
      [] OTHER -> v.str # <<>>

\* ------------------------------------------------- convert_time_signature

convert_time_signature_numerator_6_as_6_8(time_signature_string) ==
    IF ~Truthy(time_signature_string) THEN 3
    ELSE IF time_signature_string.kind # "str" THEN 3
    ELSE LET s == time_signature_string.str IN
         IF s = <<"2", "/", "4">> THEN 1
         ELSE IF s = <<"3", "/", "4">> THEN 2
         ELSE IF s = <<"4", "/", "4">> THEN 3
         ELSE IF s = <<"6", "/", "8">> THEN 4
         ELSE LET numerator == ParseInt(BeforeSlash(s)) IN
              IF ~numerator.ok THEN 3
              ELSE IF numerator.val = 4 THEN 3
              ELSE IF numerator.val = 3 THEN 2
              ELSE IF numerator.val = 6 THEN 4
              ELSE 3

\* A number is truthy or not; a truthy number equals none of the four texts
\* and has no split(), which the bare except turns into 3.
convert_time_signature(time_signature_string) ==
    IF ~Truthy(time_signature_string) THEN 3
    ELSE IF time_signature_string.kind # "str" THEN 3
    ELSE LET s == time_signature_string.str IN
         IF s = <<"2", "/", "4">> THEN 1
         ELSE IF s = <<"3", "/", "4">> THEN 2
         ELSE IF s = <<"4", "/", "4">> THEN 3
         ELSE IF s = <<"6", "/", "8">> THEN 4
         ELSE LET numerator == ParseInt(BeforeSlash(s)) IN
              IF ~numerator.ok THEN 3
              ELSE IF numerator.val = 4 THEN 3
              ELSE IF numerator.val = 3 THEN 2
              ELSE IF numerator.val = 6 THEN 1
              ELSE 3

\* ------------------------------------------------------- remote responses

\* The texts used as song titles, slot names and attribute values.
T_A == <<"A">>
T_Song1 == <<"S", "o", "n", "g", " ", "1">>
T_SongX == <<"S", "o", "n", "g", " ", "X">>
T_SongPrefix == <<"S", "o", "n", "g", " ">>
T_UnknownSong == <<"U", "n", "k", "n", "o", "w", "n", " ", "S", "o", "n", "g">>

\* Arrangement records of the remote: a dict that may lack "attributes",
\* with a bpm that is a number or a text and a time signature that may be null.
Arr_72 == [attributes |-> [bpm |-> JNum(72), time_signature |-> JStr(<<"3", "/", "4">>)]]
Arr_text72 == [attributes |-> [bpm |-> JStr(<<"7", "2">>),
                               time_signature |-> JStr(<<"3", "/", "2">>)]]
Arr_100 == [attributes |-> [bpm |-> JNum(100), time_signature |-> JStr(<<"6", "/", "8">>)]]
Arr_fast == [attributes |-> [bpm |-> JStr(<<"f", "a", "s", "t">>), time_signature |-> JNull]]
Arr_bare == [type |-> "Arrangement"]

\* What pco.get(.../arrangements) can do: raise, or return a dict whose
\* "data" lists zero or more arrangements.
NoResponse == [status |-> "none", body |-> [data |-> <<>>]]
Raised == [status |-> "raised", body |-> [data |-> <<>>]]
Returned(body) == [status |-> "ok", body |-> body]

Responses ==
    {Raised} \cup {Returned([data |-> d]) :
                    d \in {<<>>, <<Arr_72>>, <<Arr_text72, Arr_100>>, <<Arr_fast>>, <<Arr_bare>>}}

\* float(bpm_value) for a number or a text of digits, sign and spaces (for
\* these texts float() accepts what int() accepts); ok = FALSE stands for
\* the ValueError or TypeError caught at line 165.
ToFloat(v) ==
    CASE v.kind = "num" -> [ok |-> TRUE, val |-> v.num]
      [] v.kind = "str" -> ParseInt(v.str)
      [] OTHER -> [ok |-> FALSE, val |-> 0]

\* The first arrangement, when the response has a non-empty "data".
HasArrangement(response) ==
    /\ response.status = "ok"
    /\ "data" \in DOMAIN response.body
    /\ response.body.data # <<>>

FirstArrangement(response) == response.body.data[1]

DeriveBpm_no_default_on_failure(response) ==
    IF response.status = "raised" THEN 0
    ELSE IF ~HasArrangement(response) THEN DefaultBpm
    ELSE LET arr == FirstArrangement(response) IN
         IF /\ "attributes" \in DOMAIN arr
            /\ "bpm" \in DOMAIN arr.attributes
            /\ Truthy(arr.attributes.bpm)
            /\ ToFloat(arr.attributes.bpm).ok
         THEN ToFloat(arr.attributes.bpm).val
         ELSE DefaultBpm

\* bpm after lines 146-173: the default unless the first arrangement has a
\* truthy bpm that float() accepts; a raised fetch leaves the default.
DeriveBpm(response) ==
    IF ~HasArrangement(response) THEN DefaultBpm
    ELSE LET arr == FirstArrangement(response) IN
         IF /\ "attributes" \in DOMAIN arr
            /\ "bpm" \in DOMAIN arr.attributes
            /\ Truthy(arr.attributes.bpm)
            /\ ToFloat(arr.attributes.bpm).ok
         THEN ToFloat(arr.attributes.bpm).val
         ELSE DefaultBpm

\* time_sig after lines 147-173
DeriveTimeSig(response) ==
    IF ~HasArrangement(response) THEN DefaultTimeSig
    ELSE LET arr == FirstArrangement(response) IN
         IF /\ "attributes" \in DOMAIN arr
            /\ "time_signature" \in DOMAIN arr.attributes
            /\ Truthy(arr.attributes.time_signature)
         THEN convert_time_signature(arr.attributes.time_signature)
         ELSE DefaultTimeSig

\* song['data']['attributes'].get('title', 'Unknown Song')
SongTitle(s) ==
    IF "title" \in DOMAIN s.attributes THEN s.attributes.title ELSE T_UnknownSong

\* ---------------------------------------------------------- pco_songs dict

Keys(d) == [k \in 1..Len(d) |-> d[k].title]

HasKey(d, title) == \E k \in 1..Len(d) : d[k].title = title

Lookup(d, title) == d[CHOOSE k \in 1..Len(d) : d[k].title = title]

\* d[title] = entry: a new key goes last, an existing key keeps its place
DictSet(d, entry) ==
    IF HasKey(d, entry.title)
    THEN [k \in 1..Len(d) |-> IF d[k].title = entry.title THEN entry ELSE d[k]]
    ELSE Append(d, entry)

Contains(list, x) == \E k \in 1..Len(list) : list[k] = x

\* -------------------------------------------------------------------- state

VARIABLES
    pedal_file,            \* content of the project file the run loads
    output_file,           \* what this run has written: <<>> or <<document>>
    max_songs,             \* args.max_songs
    pedal_project,         \* the loaded document, mutated in place
    pco_songs,             \* title -> {title, bpm, metro_time_sig}, in insertion order
    song_count,
    song,                  \* the remote song the enumeration loop holds
    arrangement_response,  \* outcome of the last pco.get for arrangements
    yielded,               \* songs the remote enumeration has yielded
    remote_titles,         \* their titles
    fetches,               \* arrangement requests the remote has received
    updated_count,
    pco_songs_added,
    i,                     \* slot index of the pass in progress
    songs_not_added,
    rerun,                 \* this is the second run, on the first run's output
    pc,
    time_signature_string, \* argument of a convert_time_signature call
    time_sig_code          \* its result: <<>> or <<code>>

vars == <<pedal_file, output_file, max_songs, pedal_project, pco_songs, song_count,
          song, arrangement_response, yielded, remote_titles, fetches, updated_count,
          pco_songs_added, i, songs_not_added, rerun, pc,
          time_signature_string, time_sig_code>>

runVars == <<pedal_file, output_file, max_songs, pedal_project, pco_songs, song_count,
             song, arrangement_response, yielded, remote_titles, fetches, updated_count,
             pco_songs_added, i, songs_not_added, rerun, pc>>

normVars == <<time_signature_string, time_sig_code>>

\* -------------------------------------------------------------------- inputs

NoSong == [id |-> 0, attributes |-> [hidden |-> TRUE]]

\* Attributes of the songs the remote yields; one kind has no title.
RemoteAttributes == {[title |-> T_A], [title |-> T_SongX], [hidden |-> FALSE]}

SlotNames == {<<>>, T_Song1, T_SongX, T_A}

MaxSongsArgs == {0, 1, 2, DefaultMaxSongs}

\* A project document: the slots carry a field the program never touches
\* (here the slot's own number), the document another one.
Slot(name, k) == [name |-> name, bpm |-> 120, metro_time_sig |-> 4, midi_program |-> k]

Projects ==
    UNION { { [songs |-> [k \in 1..n |-> Slot(names[k], k)], firmware |-> "1.0"] :
                names \in [1..n -> SlotNames] } : n \in 0..MaxSlots }

Songs == pedal_project.songs

\* pedal_project['songs'][k][field] = value
SetSlot(project, k, fields) ==
    [project EXCEPT !.songs[k] =
        [f \in DOMAIN @ |-> IF f \in DOMAIN fields THEN fields[f] ELSE @[f]]]

\* State at line 128, before the first song is asked for: credentials and
\* project file loaded, client created, pco_songs empty.
Init ==
    /\ pedal_file \in Projects
    /\ pedal_project = pedal_file
    /\ output_file = <<>>
    /\ max_songs \in MaxSongsArgs
    /\ pco_songs = <<>>
    /\ song_count = 0
    /\ song = NoSong
    /\ arrangement_response = NoResponse
    /\ yielded = 0
    /\ remote_titles = {}
    /\ fetches = 0
    /\ updated_count = 0
    /\ pco_songs_added = <<>>
    /\ i = 0
    /\ songs_not_added = <<>>
    /\ rerun = FALSE
    /\ pc = "iterate"
    /\ time_signature_string = JNull
    /\ time_sig_code = <<>>

\* --------------------------------------------------------- catalog build

LimitReached_off_by_one(count, limit) == count > limit

\* song_count >= args.max_songs
LimitReached(count, limit) == count >= limit

\* (song_id in pco_songs: an id is never a key)
AlreadyFetched_by_id(title, d) == FALSE

\* song_title in pco_songs
AlreadyFetched(title, d) == HasKey(d, title)

\* The enumeration yields a song while the limit is reached: break.
ReachedLimit(attributes) ==
    LET s == [id |-> yielded + 1, attributes |-> attributes] IN
    /\ pc = "iterate"
    /\ yielded < MaxRemote
    /\ LimitReached(song_count, max_songs)
    /\ yielded' = yielded + 1
    /\ remote_titles' = remote_titles \cup {SongTitle(s)}
    /\ song' = s
    /\ pc' = "fetched"
    /\ UNCHANGED <<pedal_file, output_file, max_songs, pedal_project, pco_songs,
                   song_count, arrangement_response, fetches, updated_count,
                   pco_songs_added, i, songs_not_added, rerun, normVars>>

\* The enumeration yields a song whose title is already a key: continue.
SkipDuplicate(attributes) ==
    LET s == [id |-> yielded + 1, attributes |-> attributes] IN
    /\ pc = "iterate"
    /\ yielded < MaxRemote
    /\ ~LimitReached(song_count, max_songs)
    /\ AlreadyFetched(SongTitle(s), pco_songs)
    /\ yielded' = yielded + 1
    /\ remote_titles' = remote_titles \cup {SongTitle(s)}
    /\ song' = s
    /\ UNCHANGED <<pedal_file, output_file, max_songs, pedal_project, pco_songs,
                   song_count, arrangement_response, fetches, updated_count,
                   pco_songs_added, i, songs_not_added, rerun, pc, normVars>>

\* The enumeration yields a song with a new title: its arrangements are
\* requested (the request raises or returns) and the entry is stored.
ProcessSong(attributes, response) ==
    LET s == [id |-> yielded + 1, attributes |-> attributes] IN
    /\ pc = "iterate"
    /\ yielded < MaxRemote
    /\ ~LimitReached(song_count, max_songs)
    /\ ~AlreadyFetched(SongTitle(s), pco_songs)
    /\ yielded' = yielded + 1
    /\ remote_titles' = remote_titles \cup {SongTitle(s)}
    /\ song' = s
    /\ song_count' = song_count + 1
    /\ fetches' = fetches + 1
    /\ arrangement_response' = response
    /\ pco_songs' = DictSet(pco_songs, [title |-> SongTitle(s),
                                        bpm |-> DeriveBpm(response),
                                        metro_time_sig |-> DeriveTimeSig(response)])
    /\ UNCHANGED <<pedal_file, output_file, max_songs, pedal_project, updated_count,
                   pco_songs_added, i, songs_not_added, rerun, pc, normVars>>

\* The enumeration is exhausted.
EnumerationEnds ==
    /\ pc = "iterate"
    /\ pc' = "fetched"
    /\ UNCHANGED <<pedal_file, output_file, max_songs, pedal_project, pco_songs,
                   song_count, song, arrangement_response, yielded, remote_titles,
                   fetches, updated_count, pco_songs_added, i, songs_not_added,
                   rerun, normVars>>

\* Lines 185-190: the counters of the merge are set and the first pass
\* starts.  The enumeration is dropped; song and arrangement_response are
\* not read again.
StartMerge ==
    /\ pc' = "update"
    /\ i' = 1
    /\ updated_count' = 0
    /\ pco_songs_added' = <<>>
    /\ song' = NoSong
    /\ arrangement_response' = NoResponse
    /\ yielded' = 0
    /\ remote_titles' = {}

\* Line 183 and on: the catalog is complete.
BeginMerge ==
    /\ pc = "fetched"
    /\ StartMerge
    /\ UNCHANGED <<pedal_file, output_file, max_songs, pedal_project, pco_songs,
                   song_count, fetches, songs_not_added, rerun, normVars>>

EnumerationFails_after_saving ==
    /\ pc = "iterate"
    /\ pc' = "exit1"
    /\ output_file' = <<pedal_project>>
    /\ UNCHANGED <<pedal_file, max_songs, pedal_project, pco_songs, song_count,
                   song, arrangement_response, yielded, remote_titles, fetches,
                   updated_count, pco_songs_added, i, songs_not_added, rerun, normVars>>

\* Asking the remote for the next song (or page) raises: the handler at
\* lines 231-235 prints the error and exits with code 1.
EnumerationFails ==
    /\ pc = "iterate"
    /\ pc' = "exit1"
    /\ UNCHANGED <<pedal_file, output_file, max_songs, pedal_project, pco_songs,
                   song_count, song, arrangement_response, yielded, remote_titles,
                   fetches, updated_count, pco_songs_added, i, songs_not_added,
                   rerun, normVars>>

\* ------------------------------------------------------------------ merge

\* First pass, slot i (lines 190-197).
UpdateSlot ==
    /\ pc = "update"
    /\ i <= Len(Songs)
    /\ LET name == Songs[i].name IN
       IF HasKey(pco_songs, name)
       THEN LET pco_song == Lookup(pco_songs, name) IN
            /\ pedal_project' = SetSlot(pedal_project, i,
                                        [bpm |-> pco_song.bpm,
                                         metro_time_sig |-> pco_song.metro_time_sig])
            /\ updated_count' = updated_count + 1
            /\ pco_songs_added' = Append(pco_songs_added, name)
       ELSE UNCHANGED <<pedal_project, updated_count, pco_songs_added>>
    /\ i' = i + 1
    /\ UNCHANGED <<pedal_file, output_file, max_songs, pco_songs, song_count, song,
                   arrangement_response, yielded, remote_titles, fetches,
                   songs_not_added, rerun, pc, normVars>>

\* The first pass is over; the second starts at the first slot.
UpdateDone ==
    /\ pc = "update"
    /\ i > Len(Songs)
    /\ pc' = "fill"
    /\ i' = 1
    /\ UNCHANGED <<pedal_file, output_file, max_songs, pedal_project, pco_songs,
                   song_count, song, arrangement_response, yielded, remote_titles,
                   fetches, updated_count, pco_songs_added, songs_not_added, rerun,
                   normVars>>

\* song['name'].startswith('Song ') or song['name'] == ''
IsEmptySlot(name) == StartsWith(name, T_SongPrefix) \/ name = <<>>

UnplacedIndex_last(d, added) ==
    IF \E k \in 1..Len(d) : ~Contains(added, d[k].title)
    THEN CHOOSE k \in 1..Len(d) :
            /\ ~Contains(added, d[k].title)
            /\ \A j \in (k + 1)..Len(d) : Contains(added, d[j].title)
    ELSE 0

\* The inner loop of lines 204-213: the position of the first entry whose
\* title is not in pco_songs_added, 0 when there is none.
UnplacedIndex(d, added) ==
    IF \E k \in 1..Len(d) : ~Contains(added, d[k].title)
    THEN CHOOSE k \in 1..Len(d) :
            /\ ~Contains(added, d[k].title)
            /\ \A j \in 1..(k - 1) : Contains(added, d[j].title)
    ELSE 0

\* Second pass, slot i (lines 200-213).
FillSlot ==
    /\ pc = "fill"
    /\ i <= Len(Songs)
    /\ LET name == Songs[i].name
           k == UnplacedIndex(pco_songs, pco_songs_added)
       IN  IF /\ IsEmptySlot(name)
              /\ pco_songs_added # Keys(pco_songs)
              /\ k # 0
           THEN /\ pedal_project' = SetSlot(pedal_project, i,
                                            [name |-> pco_songs[k].title,
                                             bpm |-> pco_songs[k].bpm,
                                             metro_time_sig |-> pco_songs[k].metro_time_sig])
                /\ updated_count' = updated_count + 1
                /\ pco_songs_added' = Append(pco_songs_added, pco_songs[k].title)
           ELSE UNCHANGED <<pedal_project, updated_count, pco_songs_added>>
    /\ i' = i + 1
    /\ UNCHANGED <<pedal_file, output_file, max_songs, pco_songs, song_count, song,
                   arrangement_response, yielded, remote_titles, fetches,
                   songs_not_added, rerun, pc, normVars>>

\* The second pass is over.
FillDone ==
    /\ pc = "fill"
    /\ i > Len(Songs)
    /\ pc' = "save"
    /\ UNCHANGED <<pedal_file, output_file, max_songs, pedal_project, pco_songs,
                   song_count, song, arrangement_response, yielded, remote_titles,
                   fetches, updated_count, pco_songs_added, i, songs_not_added, rerun,
                   normVars>>

\* save_pedal_project(pedal_project, output_file): json.dump of a document
\* of strings and numbers, which json.load gives back unchanged.  Errors of
\* the file system are not modelled.
Save ==
    /\ pc = "save"
    /\ output_file' = <<pedal_project>>
    /\ pc' = "report"
    /\ UNCHANGED <<pedal_file, max_songs, pedal_project, pco_songs, song_count, song,
                   arrangement_response, yielded, remote_titles, fetches,
                   updated_count, pco_songs_added, i, songs_not_added, rerun, normVars>>

NotAdded_all(d, added) == Keys(d)

\* [title for title in pco_songs.keys() if title not in pco_songs_added]
NotAdded(d, added) ==
    LET unplaced(title) == ~Contains(added, title) IN SelectSeq(Keys(d), unplaced)

\* Lines 221-229; the run then ends with exit code 0.
Report ==
    /\ pc = "report"
    /\ songs_not_added' = NotAdded(pco_songs, pco_songs_added)
    /\ pc' = "done"
    /\ UNCHANGED <<pedal_file, output_file, max_songs, pedal_project, pco_songs,
                   song_count, song, arrangement_response, yielded, remote_titles,
                   fetches, updated_count, pco_songs_added, i, rerun, normVars>>

\* The program is run again on the file the first run wrote, the remote
\* unchanged: the catalog build gives the same pco_songs, so the second run
\* is taken up where its merge starts (lines 108-111, 183-187).
RunAgain ==
    /\ pc = "done"
    /\ ~rerun
    /\ rerun' = TRUE
    /\ pedal_file' = output_file[1]
    /\ pedal_project' = output_file[1]
    /\ output_file' = <<>>
    /\ songs_not_added' = <<>>
    /\ StartMerge
    /\ UNCHANGED <<max_songs, pco_songs, song_count, fetches, normVars>>

Next ==
    \/ \E attributes \in RemoteAttributes : ReachedLimit(attributes)
    \/ \E attributes \in RemoteAttributes : SkipDuplicate(attributes)
    \/ \E attributes \in RemoteAttributes, response \in Responses :
            ProcessSong(attributes, response)
    \/ EnumerationEnds
    \/ EnumerationFails
    \/ BeginMerge
    \/ UpdateSlot
    \/ UpdateDone
    \/ FillSlot
    \/ FillDone
    \/ Save
    \/ Report
    \/ RunAgain

Spec == Init /\ [][Next]_vars

\* ------------------------------------------------ the normalizer on its own

NormAlphabet == {"0", "2", "3", "4", "5", "6", "8", "/", " ", "-", "x"}

\* None, two numbers, and every text over NormAlphabet up to MaxLen characters
TimeSignatureInputs ==
    {JNull, JNum(0), JNum(4)}
    \cup {JStr(s) : s \in UNION {[1..n -> NormAlphabet] : n \in 0..MaxLen}}

NormInit ==
    /\ time_signature_string \in TimeSignatureInputs
    /\ time_sig_code = <<>>
    /\ pedal_file = [songs |-> <<>>, firmware |-> "1.0"]
    /\ pedal_project = pedal_file
    /\ output_file = <<>>
    /\ max_songs = DefaultMaxSongs
    /\ pco_songs = <<>>
    /\ song_count = 0
    /\ song = NoSong
    /\ arrangement_response = NoResponse
    /\ yielded = 0
    /\ remote_titles = {}
    /\ fetches = 0
    /\ updated_count = 0
    /\ pco_songs_added = <<>>
    /\ i = 0
    /\ songs_not_added = <<>>
    /\ rerun = FALSE
    /\ pc = "convert"

\* One call of convert_time_signature.
Convert ==
    /\ pc = "convert"
    /\ time_sig_code = <<>>
    /\ time_sig_code' = <<convert_time_signature(time_signature_string)>>
    /\ UNCHANGED <<time_signature_string, runVars>>

NormNext == Convert

NormSpec == NormInit /\ [][NormNext]_vars

\* ------------------------------------------------------------------ claims

\* The slots as they were loaded, before the merge of this run.
Before == pedal_file.songs

\* The update pass and the fill pass are both over.
MergeComplete == pc \in {"save", "report", "done"}

Min(a, b) == IF a <= b THEN a ELSE b

\* A slot name the fill pass treats as free: empty, or beginning "Song ".
PlaceholderName(name) ==
    \/ name = <<>>
    \/ /\ Len(name) >= 5
       /\ <<name[1], name[2], name[3], name[4], name[5]>> = <<"S", "o", "n", "g", " ">>

\* A default name of the form "Song <n>", n a decimal number.
NumberedDefaultName(name) ==
    /\ Len(name) > 5
    /\ <<name[1], name[2], name[3], name[4], name[5]>> = <<"S", "o", "n", "g", " ">>
    /\ \A k \in 6..Len(name) : name[k] \in {"0", "1", "2", "3", "4", "5", "6", "7", "8", "9"}

\* The positions of the placeholder slots, in project order.
PlaceholderSlots ==
    LET free(k) == PlaceholderName(Before[k].name)
    IN  SelectSeq([k \in 1..Len(Before) |-> k], free)

\* The catalog entries the update pass does not place (no slot has their
\* title as its name), in catalog insertion order.
UnplacedAfterUpdate ==
    LET unmatched(e) == \A k \in 1..Len(Before) : Before[k].name # e.title
    IN  SelectSeq(pco_songs, unmatched)

\* What the update pass alone makes of slot k.
AfterUpdate(k) ==
    IF \E e \in 1..Len(pco_songs) : pco_songs[e].title = Before[k].name
    THEN LET e == CHOOSE e \in 1..Len(pco_songs) : pco_songs[e].title = Before[k].name
         IN  [Before[k] EXCEPT !.bpm = pco_songs[e].bpm,
                               !.metro_time_sig = pco_songs[e].metro_time_sig]
    ELSE Before[k]

\* C1 (as claimed): once the merge is complete, every slot whose name before
\* the merge is a catalog title has that entry's bpm and time signature and
\* still has its name.
C1_MatchedSlotKeepsNameAndTakesValues ==
    MergeComplete =>
        \A k \in 1..Len(Before) :
            (\E e \in 1..Len(pco_songs) : pco_songs[e].title = Before[k].name) =>
                /\ k <= Len(Songs)
                /\ Songs[k] = AfterUpdate(k)

\* C2 (as claimed): a second merge with the same catalog, on the project the
\* first run wrote, changes no slot.
C2_SecondMergeChangesNothing ==
    (rerun /\ MergeComplete) => Songs = Before

\* C3 (as claimed): the merge keeps the number and order of the slots, and a
\* slot whose name is non-empty, is not of the form "Song <n>" and is not a
\* catalog title is left exactly as it was.
C3_OtherSlotsUntouched ==
    MergeComplete =>
        /\ Len(Songs) = Len(Before)
        /\ \A k \in 1..Len(Before) :
            ( /\ Before[k].name # <<>>
              /\ ~NumberedDefaultName(Before[k].name)
              /\ \A e \in 1..Len(pco_songs) : pco_songs[e].title # Before[k].name )
            => Songs[k] = Before[k]

C6_NoPartialSave ==
    /\ [](pc = "exit1" => output_file = <<>>)
    /\ [][ /\ (output_file' # output_file /\ output_file' # <<>>) =>
                (pc = "save" /\ output_file' = <<pedal_project>>)
           /\ (pc' = "save" /\ pc # "save") => (pc = "fill" /\ i > Len(Songs))
           /\ (pc' = "fill" /\ pc # "fill") => (pc = "update" /\ i > Len(Songs))
           /\ (pc' = "update" /\ pc # "update") => pc \in {"fetched", "done"}
           /\ (pc' = "fetched" /\ pc # "fetched") => pc = "iterate"
           /\ pc # "exit1" ]_vars

\* C6 witness: the enumeration failed after two songs were processed.
C6_Witness ==
    /\ pc = "exit1"
    /\ Len(pco_songs) = 2
    /\ output_file = <<>>

\* C7: when the arrangement request of a song raises, the loop goes on, the
\* song's entry is stored with bpm 80 and time signature 3, and the run does
\* not end; the only step that ends the run with code 1 asks for no
\* arrangement.
C7_FetchFailureIsLocal ==
    [][ /\ (pc = "iterate" /\ fetches' = fetches + 1 /\ arrangement_response'.status = "raised") =>
              /\ pc' = "iterate"
              /\ Len(pco_songs') = Len(pco_songs) + 1
              /\ pco_songs'[Len(pco_songs')] =
                    [title |-> SongTitle(song'), bpm |-> 80, metro_time_sig |-> 3]
        /\ pc' = "exit1" => fetches' = fetches ]_vars

\* C7 witness: a request raised for the second song and the loop is still on.
C7_Witness ==
    /\ pc = "iterate"
    /\ arrangement_response.status = "raised"
    /\ song.id = 2
    /\ Len(pco_songs) = 2
    /\ pco_songs[2].bpm = 80

\* C8: the catalog never has more than max_songs entries and no more than
\* max_songs arrangement requests are made; while and when the loop ends the
\* catalog has min(max_songs, distinct titles yielded) entries; once the
\* limit is reached the next song yielded ends the loop and is not processed.
C8_MaxSongsCap ==
    /\ [](/\ Len(pco_songs) <= max_songs
          /\ fetches <= max_songs
          /\ pc \in {"iterate", "fetched"} =>
                Len(pco_songs) = Min(max_songs, Cardinality(remote_titles)))
    /\ [][ (pc = "iterate" /\ song_count >= max_songs) =>
              /\ pc' # "iterate"
              /\ pco_songs' = pco_songs
              /\ fetches' = fetches ]_vars

\* C8 witness: the limit of one song ended the loop at a second title.
C8_Witness ==
    /\ pc = "fetched"
    /\ max_songs = 1
    /\ Len(pco_songs) = 1
    /\ Cardinality(remote_titles) = 2
    /\ yielded = 2

\* C9: the catalog has one entry per distinct title processed, in order of
\* first occurrence; an entry is made from the first song with its title and
\* never changes; a later song with a title already there causes no request.
C9_DedupFirstSeenWins ==
    /\ [](/\ \A a, b \in 1..Len(pco_songs) : pco_songs[a].title = pco_songs[b].title => a = b
          /\ pc = "iterate" => {pco_songs[k].title : k \in 1..Len(pco_songs)} = remote_titles)
    /\ [][ /\ \A k \in 1..Len(pco_songs) :
                Len(pco_songs') >= k /\ pco_songs'[k] = pco_songs[k]
           /\ (pc = "iterate" /\ pc' = "iterate" /\ yielded' = yielded + 1) =>
                IF \E k \in 1..Len(pco_songs) : pco_songs[k].title = SongTitle(song')
                THEN pco_songs' = pco_songs /\ fetches' = fetches
                ELSE /\ fetches' = fetches + 1
                     /\ pco_songs' = Append(pco_songs,
                            [title |-> SongTitle(song'),
                             bpm |-> DeriveBpm(arrangement_response'),
                             metro_time_sig |-> DeriveTimeSig(arrangement_response')]) ]_vars

\* C9 witness: a second song, with another id and the title of the first,
\* was skipped: one entry, one request.
C9_Witness ==
    /\ pc = "iterate"
    /\ song.id = 2
    /\ Len(pco_songs) = 1
    /\ pco_songs[1].title = SongTitle(song)
    /\ fetches = 1
    /\ max_songs > 1

====
